---------------------------- MODULE Spec2Model ----------------------------
(***************************************************************************)
(* A model of sample_czml_gen.py: the timestamp codec, the CSV reader, the *)
(* document-packet aggregator, the polygon builder and the main pipeline.  *)
(*                                                                         *)
(* Strings the program inspects character by character (file content,     *)
(* CSV fields, timestamp strings) are sequences of one-character strings.  *)
(* A Python float is the record [neg, int, frac]: sign, integer part and   *)
(* fractional part counted in ticks of 2^-22 second, which is the spacing  *)
(* of IEEE doubles in [2^30, 2^31), the range of present-day epoch values. *)
(***************************************************************************)
EXTENDS Integers, Sequences, FiniteSets, TLC

VARIABLES
    \* timestamp codec (unix_to_iso_string, get_strptime)
    cpc, ct, cstr, cparsed,
    \* main pipeline (csv_to_czml, create_doc_packet_from_czmls, write_to_file)
    pc, rows, finalNewline, file, fileExists, position_type, offset, in_file,
    positions, czml, doc_packet, out_file, out_content, err,
    \* create_doc_packet_from_czmls called on lists of entities
    dpc, czmls, original, dresult, dfirst,
    \* create_entity_with_polygon
    gpc, vertices, polygon

codecVars == <<cpc, ct, cstr, cparsed>>
pipeVars  == <<pc, rows, finalNewline, file, fileExists, position_type, offset,
               in_file, positions, czml, doc_packet, out_file, out_content, err>>
docVars   == <<dpc, czmls, original, dresult, dfirst>>
polyVars  == <<gpc, vertices, polygon>>
vars      == <<codecVars, pipeVars, docVars, polyVars>>

---------------------------------------------------------------------------
(* Characters *)

DigitChars == <<"0", "1", "2", "3", "4", "5", "6", "7", "8", "9">>

IsDigit(c) == \E d \in 1..10 : DigitChars[d] = c

DigitVal(c) == (CHOOSE d \in 1..10 : DigitChars[d] = c) - 1

\* The code point of a character, for Python's comparison of str values.
Ord(c) ==
    CASE c = "\n" -> 10
      [] c = " "  -> 32
      [] c = "#"  -> 35
      [] c = ","  -> 44
      [] c = "-"  -> 45
      [] c = "."  -> 46
      [] c = "/"  -> 47
      [] IsDigit(c) -> 48 + DigitVal(c)
      [] c = ":"  -> 58
      [] c = "T"  -> 84
      [] c = "Z"  -> 90
      [] c = "x"  -> 120
      [] OTHER    -> 127

\* Python's s1 < s2 on str: the first differing code point decides, a proper
\* prefix is smaller.
RECURSIVE StrLess(_, _)
StrLess(s1, s2) ==
    IF s2 = <<>> THEN FALSE
    ELSE IF s1 = <<>> THEN TRUE
    ELSE IF Head(s1) = Head(s2) THEN StrLess(Tail(s1), Tail(s2))
    ELSE Ord(Head(s1)) < Ord(Head(s2))

---------------------------------------------------------------------------
(* float(text) *)

TicksPerSecond == 2^22

IsSpace(c) == c \in {" ", "\n"}

RECURSIVE LStrip(_)
LStrip(s) == IF s # <<>> /\ IsSpace(Head(s)) THEN LStrip(Tail(s)) ELSE s

RECURSIVE RStrip(_)
RStrip(s) ==
    IF s # <<>> /\ IsSpace(s[Len(s)]) THEN RStrip(SubSeq(s, 1, Len(s) - 1)) ELSE s

AllDigits(s) == \A i \in 1..Len(s) : IsDigit(s[i])

RECURSIVE DigitsValue(_)
DigitsValue(s) ==
    IF s = <<>> THEN 0 ELSE 10 * DigitsValue(SubSeq(s, 1, Len(s) - 1)) + DigitVal(s[Len(s)])

RECURSIVE Pow10(_)
Pow10(k) == IF k = 0 THEN 1 ELSE 10 * Pow10(k - 1)

\* num/den of a second (num < den) in ticks, by binary long division: the pair
\* <<ticks so far, remainder>> after `bits` more doublings.
RECURSIVE BinaryDigits(_, _, _, _)
BinaryDigits(num, den, bits, acc) ==
    IF bits = 0 THEN <<acc, num>>
    ELSE IF 2 * num >= den
         THEN BinaryDigits(2 * num - den, den, bits - 1, 2 * acc + 1)
         ELSE BinaryDigits(2 * num, den, bits - 1, 2 * acc)

\* The decimal fraction 0.<digits> rounded to the nearest tick, ties to the even
\* tick: the double float() yields for a value in [2^30, 2^31), and the exact one
\* for any fraction that is a multiple of 2^-22. TicksPerSecond stands for a
\* carry into the integer part.
FractionTicks(digits) ==
    IF digits = <<>> THEN 0
    ELSE LET den == Pow10(Len(digits))
             qr  == BinaryDigits(DigitsValue(digits), den, 22, 0)
             q   == qr[1]
             r   == qr[2]
         IN  IF 2 * r > den \/ (2 * r = den /\ q % 2 = 1) THEN q + 1 ELSE q

FloatError == [ok |-> FALSE, neg |-> FALSE, int |-> 0, frac |-> 0]

\* float(s) for texts of digits, '.', '-', blanks, newlines and 'x' (the
\* characters of the files modelled; exponents, underscores, inf and nan do not
\* occur in them): surrounding whitespace is stripped, then an optional sign,
\* then digits with an optional point; anything else raises ValueError.
Float(s) ==
    LET t     == RStrip(LStrip(s))
        neg   == t # <<>> /\ Head(t) = "-"
        body  == IF neg THEN Tail(t) ELSE t
        dots  == {i \in 1..Len(body) : body[i] = "."}
        dot   == IF dots = {} THEN Len(body) + 1 ELSE CHOOSE i \in dots : TRUE
        ipart == SubSeq(body, 1, dot - 1)
        fpart == SubSeq(body, dot + 1, Len(body))
    IN  IF \/ Cardinality(dots) > 1
           \/ ~AllDigits(ipart) \/ ~AllDigits(fpart)
           \/ (ipart = <<>> /\ fpart = <<>>)
        THEN FloatError
        ELSE LET ticks == FractionTicks(fpart)
             IN  IF ticks = TicksPerSecond
                 THEN [ok |-> TRUE, neg |-> neg, int |-> DigitsValue(ipart) + 1, frac |-> 0]
                 ELSE [ok |-> TRUE, neg |-> neg, int |-> DigitsValue(ipart), frac |-> ticks]

---------------------------------------------------------------------------
(* datetime.utcfromtimestamp(unix_seconds).isoformat() + "Z" *)

\* round(frac * 1e6), half to even, for frac given in ticks. frac * 10^6 / 2^22
\* is frac * 15625 / 2^16; the product is split so that it stays below 2^31.
RoundMicros(frac) ==
    LET a == frac \div 65536
        b == frac % 65536
        p == b * 15625
        q == a * 15625 + (p \div 65536)
        r == p % 65536
    IN  IF 2 * r > 65536 \/ (2 * r = 65536 /\ q % 2 = 1) THEN q + 1 ELSE q

\* modf() splits the float into integer and fractional parts of its own sign;
\* the rounded microseconds are then brought back into 0..999999.
EpochMicros(f) ==
    LET us == RoundMicros(f.frac)
    IN  IF ~f.neg
        THEN IF us >= 1000000 THEN [sec |-> f.int + 1, us |-> us - 1000000]
                              ELSE [sec |-> f.int, us |-> us]
        ELSE IF us > 0 THEN [sec |-> (0 - f.int) - 1, us |-> 1000000 - us]
                       ELSE [sec |-> 0 - f.int, us |-> 0]

\* The proleptic Gregorian date of a day count from 1970-01-01.
CivilFromDays(days) ==
    LET z   == days + 719468
        era == z \div 146097
        doe == z - era * 146097
        yoe == (doe - (doe \div 1460) + (doe \div 36524) - (doe \div 146096)) \div 365
        doy == doe - (365 * yoe + (yoe \div 4) - (yoe \div 100))
        mp  == (5 * doy + 2) \div 153
        d   == doy - ((153 * mp + 2) \div 5) + 1
        m   == IF mp < 10 THEN mp + 3 ELSE mp - 9
        y   == yoe + era * 400 + (IF m <= 2 THEN 1 ELSE 0)
    IN  [year |-> y, month |-> m, day |-> d]

\* The epoch values modelled lie in the years utcfromtimestamp accepts (1..9999).
UtcFromTimestamp(f) ==
    LET e    == EpochMicros(f)
        date == CivilFromDays(e.sec \div 86400)
        rem  == e.sec % 86400
    IN  [year |-> date.year, month |-> date.month, day |-> date.day,
         hour |-> rem \div 3600, minute |-> (rem % 3600) \div 60,
         second |-> rem % 60, microsecond |-> e.us]

\* Variant: "%d" % n, the digits without the zeros in front.
RECURSIVE Pad_nopad(_, _)
Pad_nopad(n, width) ==
    IF n < 10 THEN <<DigitChars[n + 1]>>
    ELSE Pad_nopad(n \div 10, width) \o <<DigitChars[(n % 10) + 1]>>

\* "%0<width>d" % n
RECURSIVE Pad(_, _)
Pad(n, width) ==
    IF width <= 1 /\ n < 10 THEN <<DigitChars[n + 1]>>
    ELSE Pad(n \div 10, width - 1) \o <<DigitChars[(n % 10) + 1]>>

\* datetime.isoformat(): the fraction is written only when microsecond is not 0.
IsoFormat(dt) ==
    Pad(dt.year, 4) \o <<"-">> \o Pad(dt.month, 2) \o <<"-">> \o Pad(dt.day, 2)
    \o <<"T">> \o Pad(dt.hour, 2) \o <<":">> \o Pad(dt.minute, 2)
    \o <<":">> \o Pad(dt.second, 2)
    \o (IF dt.microsecond = 0 THEN <<>> ELSE <<".">> \o Pad(dt.microsecond, 6))

unix_to_iso_string(unix_seconds) ==
    IsoFormat(UtcFromTimestamp(unix_seconds)) \o <<"Z">>

---------------------------------------------------------------------------
(* datetime.strptime(time, format) for the two formats of get_strptime *)

Lit(c) == [kind |-> "lit", char |-> c, min |-> 0, max |-> 0, lo |-> 0, hi |-> 0]
Num(name, min, max, lo, hi) ==
    [kind |-> name, char |-> "", min |-> min, max |-> max, lo |-> lo, hi |-> hi]

\* "%Y-%m-%dT%H:%M:%SZ": the digit counts and value ranges are those of the
\* regular expressions strptime builds for the directives.
WholeSecondFormat ==
    << Num("year", 4, 4, 0, 9999), Lit("-"), Num("month", 1, 2, 1, 12), Lit("-"),
       Num("day", 1, 2, 1, 31), Lit("T"), Num("hour", 1, 2, 0, 23), Lit(":"),
       Num("minute", 1, 2, 0, 59), Lit(":"), Num("second", 1, 2, 0, 61), Lit("Z") >>

\* "%Y-%m-%dT%H:%M:%S.%fZ"
FractionFormat ==
    SubSeq(WholeSecondFormat, 1, 11)
    \o << Lit("."), Num("microsecond", 1, 6, 0, 999999), Lit("Z") >>

\* The number of digits at the head of s, at most max.
RECURSIVE DigitRun(_, _)
DigitRun(s, max) ==
    IF max = 0 \/ s = <<>> \/ ~IsDigit(Head(s)) THEN 0 ELSE 1 + DigitRun(Tail(s), max - 1)

NoFields ==
    [year |-> 0, month |-> 0, day |-> 0, hour |-> 0, minute |-> 0, second |-> 0,
     microsecond |-> 0]

\* Matches s against fmt from left to right; every directive is followed by a
\* literal that is no digit, so taking the longest run of digits is what the
\* regular expression's backtracking arrives at. %f is padded with zeros on the
\* right to six digits. The whole string must be consumed.
RECURSIVE MatchFormat(_, _, _)
MatchFormat(s, fmt, got) ==
    IF fmt = <<>> THEN [ok |-> s = <<>>, dt |-> got]
    ELSE LET item == Head(fmt)
         IN  IF item.kind = "lit"
             THEN IF s # <<>> /\ Head(s) = item.char
                  THEN MatchFormat(Tail(s), Tail(fmt), got)
                  ELSE [ok |-> FALSE, dt |-> got]
             ELSE LET k   == DigitRun(s, item.max)
                      raw == DigitsValue(SubSeq(s, 1, k))
                      val == IF item.kind = "microsecond" THEN raw * Pow10(6 - k) ELSE raw
                  IN  IF k < item.min \/ raw < item.lo \/ raw > item.hi
                      THEN [ok |-> FALSE, dt |-> got]
                      ELSE MatchFormat(SubSeq(s, k + 1, Len(s)), Tail(fmt),
                                       [got EXCEPT ![item.kind] = val])

IsLeap(y) == (y % 4 = 0) /\ ((y % 100 # 0) \/ (y % 400 = 0))

DaysInMonth(y, m) ==
    IF m = 2 THEN (IF IsLeap(y) THEN 29 ELSE 28)
    ELSE IF m \in {4, 6, 9, 11} THEN 30 ELSE 31

\* strptime(): the match, then the datetime constructor's own range checks.
Strptime(s, fmt) ==
    LET m == MatchFormat(s, fmt, NoFields)
    IN  IF m.ok /\ m.dt.year >= 1 /\ m.dt.day <= DaysInMonth(m.dt.year, m.dt.month)
           /\ m.dt.second <= 59
        THEN m
        ELSE [ok |-> FALSE, dt |-> NoFields]

\* The result names the format that matched: "whole", "fraction", or "none"
\* when the second strptime raises ValueError too.
get_strptime(time) ==
    LET first == Strptime(time, WholeSecondFormat)
    IN  IF first.ok THEN [form |-> "whole", dt |-> first.dt]
        ELSE LET second == Strptime(time, FractionFormat)
             IN  IF second.ok THEN [form |-> "fraction", dt |-> second.dt]
                 ELSE [form |-> "none", dt |-> NoFields]

---------------------------------------------------------------------------
(* The codec applied to epoch values: format, then parse *)

MaxDayOffset == 2
MaxTick == 3

\* Whole seconds: the epoch, the last second of a minute and of a day, the
\* sample rows' timestamps, and 23:59:59 on the days from 2000-02-28 on.
CodecSeconds ==
    {0, 59, 86399, 1676502926, 1676502930}
    \cup {951696000 + 86399 + 86400 * k : k \in 0..MaxDayOffset}

\* Fractions in ticks: the smallest ones, the two kinds of tie (7812.5 and
\* 23437.5 microseconds), a half second, and the last ticks before the next second.
CodecFractions ==
    (0..MaxTick) \cup {32768, 98304, 2097152, TicksPerSecond - 2, TicksPerSecond - 1}

CodecInit ==
    /\ cpc = "start"
    /\ ct \in [ok : {TRUE}, neg : BOOLEAN, int : CodecSeconds, frac : CodecFractions]
    /\ cstr = <<>>
    /\ cparsed = [form |-> "none", dt |-> NoFields]

CodecIdle ==
    /\ cpc = "idle"
    /\ ct = FloatError
    /\ cstr = <<>>
    /\ cparsed = [form |-> "none", dt |-> NoFields]

CodecFormat ==
    /\ cpc = "start"
    /\ cstr' = unix_to_iso_string(ct)
    /\ cpc' = "formatted"
    /\ UNCHANGED <<ct, cparsed, pipeVars, docVars, polyVars>>

CodecParse ==
    /\ cpc = "formatted"
    /\ cparsed' = get_strptime(cstr)
    /\ cpc' = "parsed"
    /\ UNCHANGED <<ct, cstr, pipeVars, docVars, polyVars>>

---------------------------------------------------------------------------
(* Entities. A Python dict with string keys is a record; the "position" dict, *)
(* whose first key the aggregator reads, is the sequence of its <<key, value>>*)
(* pairs in insertion order.                                                  *)

position_types == <<"cartesian", "cartographicDegrees", "cartographicRadians">>

InList(x, list) == \E i \in 1..Len(list) : list[i] = x

IntFloat(n) == [ok |-> TRUE, neg |-> FALSE, int |-> n, frac |-> 0]

\* Variant: the references collected in the opposite order.
RECURSIVE References_reversed(_)
References_reversed(vs) ==
    IF vs = <<>> THEN <<>>
    ELSE References_reversed(Tail(vs)) \o <<Head(vs) \o "#position">>

\* [f"{vertex}#position" for vertex in vertices]
RECURSIVE References(_)
References(vs) ==
    IF vs = <<>> THEN <<>>
    ELSE <<Head(vs) \o "#position">> \o References(Tail(vs))

create_entity_with_polygon(vs) ==
    [id |-> "Polygon Entity",
     polygon |-> [positions |-> [references |-> References(vs)],
                  fill |-> TRUE,
                  material |-> [solidColor |-> [color |-> [rgba |-> <<255, 255, 0, 50>>]]],
                  outline |-> TRUE,
                  outlineColor |-> [rgba |-> <<0, 0, 0, 100>>],
                  perPositionHeight |-> TRUE]]

create_entity_with_ellipsoid ==
    [id |-> "Ellipsoid Entity",
     position |-> << <<"cartesian",
                       <<unix_to_iso_string(IntFloat(0)), IntFloat(10000000),
                         IntFloat(10000000), IntFloat(10000000)>> >> >>,
     ellipsoid |-> [radii |-> [cartesian |-> <<500, 500, 500>>],
                    material |-> [solidColor |-> [color |-> [rgba |-> <<0, 199, 203, 64>>]]],
                    outline |-> TRUE,
                    outlineColor |-> [rgbaf |-> <<IntFloat(0), IntFloat(1),
                                              [IntFloat(0) EXCEPT !.frac = 2097152],
                                              IntFloat(1)>>]]]

\* The dict csv_to_czml returns (lines 89-99).
CsvEntity(entity_name, ptype, plist) ==
    [id |-> entity_name,
     position |-> << <<ptype, plist>> >>,
     point |-> [pixelSize |-> 10, color |-> [rgba |-> <<0, 199, 203, 255>>]],
     path |-> [leadTime |-> 30000, trailTime |-> 30000, resolution |-> 45,
               material |-> [solidColor |-> [color |-> [rgba |-> <<0, 199, 203, 255>>]]]]]

---------------------------------------------------------------------------
(* create_doc_packet_from_czmls *)

\* min(list) on str values: the first of the smallest; ValueError on an empty list.
RECURSIVE MinFrom(_, _)
MinFrom(best, rest) ==
    IF rest = <<>> THEN best
    ELSE MinFrom(IF StrLess(Head(rest), best) THEN Head(rest) ELSE best, Tail(rest))

\* Variant: the first element, whatever follows it.
PyMin_first(list) ==
    IF list = <<>> THEN [status |-> "ValueError", value |-> <<>>]
    ELSE [status |-> "ok", value |-> Head(list)]

\* min(list)
PyMin(list) ==
    IF list = <<>> THEN [status |-> "ValueError", value |-> <<>>]
    ELSE [status |-> "ok", value |-> MinFrom(Head(list), Tail(list))]

RECURSIVE MaxFrom(_, _)
MaxFrom(best, rest) ==
    IF rest = <<>> THEN best
    ELSE MaxFrom(IF StrLess(best, Head(rest)) THEN Head(rest) ELSE best, Tail(rest))

\* max(list): the first of the greatest; ValueError on an empty list.
PyMax(list) ==
    IF list = <<>> THEN [status |-> "ValueError", value |-> <<>>]
    ELSE [status |-> "ok", value |-> MaxFrom(Head(list), Tail(list))]

HasPosition(packet) == "position" \in DOMAIN packet

\* Variant: any position field qualifies, whatever its key.
Qualifies_anyKey(packet) == HasPosition(packet)

\* Variant: without the test for a "position" key.
Qualifies_noPositionCheck(packet) ==
    HasPosition(packet) => InList(packet.position[1][1], position_types)

\* The condition of both comprehensions (lines 32-33 and 40-41).
Qualifies(packet) ==
    HasPosition(packet) /\ InList(packet.position[1][1], position_types)

\* packet["position"][list(packet["position"].keys())[0]][index], index being 0
\* or -4: KeyError without a "position" key, IndexError when the list is too short.
Sample(packet, index) ==
    IF ~HasPosition(packet) THEN [status |-> "KeyError", value |-> <<>>]
    ELSE LET list == packet.position[1][2]
             i    == IF index >= 0 THEN index + 1 ELSE Len(list) + index + 1
         IN  IF i \in 1..Len(list) THEN [status |-> "ok", value |-> list[i]]
             ELSE [status |-> "IndexError", value |-> <<>>]

\* One list comprehension: the samples of the qualifying packets in list order,
\* or the first exception raised on the way.
RECURSIVE Comprehension(_, _, _)
Comprehension(packets, index, acc) ==
    IF packets = <<>> THEN [status |-> "ok", value |-> acc]
    ELSE IF ~Qualifies(Head(packets)) THEN Comprehension(Tail(packets), index, acc)
    ELSE LET s == Sample(Head(packets), index)
         IN  IF s.status # "ok" THEN s
             ELSE Comprehension(Tail(packets), index, Append(acc, s.value))

Reduce(comprehension, isMin) ==
    IF comprehension.status # "ok" THEN comprehension
    ELSE IF isMin THEN PyMin(comprehension.value) ELSE PyMax(comprehension.value)

NoPacket == [id |-> "", version |-> "", clock |-> [interval |-> <<>>, multiplier |-> 0,
                                                     currentTime |-> <<>>, range |-> ""]]

\* The result is the packet returned, or the exception that ended the call.
create_doc_packet_from_czmls(packets) ==
    LET min_time == Reduce(Comprehension(packets, 0, <<>>), TRUE)
    IN  IF min_time.status # "ok" THEN [status |-> min_time.status, packet |-> NoPacket]
        ELSE LET max_time == Reduce(Comprehension(packets, -4, <<>>), FALSE)
             IN  IF max_time.status # "ok"
                 THEN [status |-> max_time.status, packet |-> NoPacket]
                 ELSE [status |-> "ok",
                       packet |-> [id |-> "document", version |-> "1.0",
                                   clock |-> [interval |-> min_time.value \o <<"/">>
                                                           \o max_time.value,
                                              multiplier |-> 1,
                                              currentTime |-> min_time.value,
                                              range |-> "CLAMPED"]]]

---------------------------------------------------------------------------
(* csv_to_czml: the text of one line *)

\* `for line in in_file`: the text from `from` up to and including the next
\* newline, or to the end of the file when no newline follows.
RECURSIVE LineEnd(_, _)
LineEnd(text, i) ==
    IF i >= Len(text) \/ text[i] = "\n" THEN i ELSE LineEnd(text, i + 1)

ReadLine(text, from) == SubSeq(text, from, LineEnd(text, from))

\* line[:-1]
DropLast(line) == SubSeq(line, 1, Len(line) - 1)

\* str.split(","): always at least one field, empty fields kept.
RECURSIVE SplitFrom(_, _, _)
SplitFrom(text, field, fields) ==
    IF text = <<>> THEN Append(fields, field)
    ELSE IF Head(text) = "," THEN SplitFrom(Tail(text), <<>>, Append(fields, field))
    ELSE SplitFrom(Tail(text), Append(field, Head(text)), fields)

Split(text) == SplitFrom(text, <<>>, <<>>)

\* Variant: every field kept.
FirstFour_all(fields) == fields

\* fields[:4]
FirstFour(fields) == SubSeq(fields, 1, IF Len(fields) < 4 THEN Len(fields) ELSE 4)

\* Lines 85-88 for one line: the four values positions is extended by, or the
\* ValueError of the unpacking (not exactly four fields) or of a float().
ParseLine(line) ==
    LET fields == FirstFour(Split(DropLast(line)))
    IN  IF Len(fields) # 4 THEN [status |-> "ValueError", values |-> <<>>]
        ELSE LET t == Float(fields[1])
                 x == Float(fields[2])
                 y == Float(fields[3])
                 z == Float(fields[4])
             IN  IF t.ok /\ x.ok /\ y.ok /\ z.ok
                 THEN [status |-> "ok", values |-> <<unix_to_iso_string(t), x, y, z>>]
                 ELSE [status |-> "ValueError", values |-> <<>>]

---------------------------------------------------------------------------
(* main(): csv_to_czml, create_doc_packet_from_czmls, write_to_file, step by step *)

\* The inputs of a run, and the variables of the other parts of the model.
PipeFrame ==
    UNCHANGED <<rows, finalNewline, file, fileExists, position_type,
                codecVars, docVars, polyVars>>

\* Variant: every name accepted.
IsPositionType_any(ptype) == TRUE

\* Line 76.
IsPositionType(ptype) == InList(ptype, position_types)

\* Lines 76-79: the check of position_type, before anything else.
CsvCheckType ==
    /\ pc = "csv_check"
    /\ IF IsPositionType(position_type)
       THEN pc' = "csv_open" /\ err' = err
       ELSE pc' = "failed" /\ err' = "Exception"
    /\ UNCHANGED <<offset, in_file, positions, czml, doc_packet, out_file, out_content>>
    /\ PipeFrame

\* Line 83: open(filepath); positions is the empty list of line 81.
CsvOpen ==
    /\ pc = "csv_open"
    /\ IF fileExists
       THEN pc' = "csv_loop" /\ in_file' = "open" /\ offset' = 1 /\ err' = err
       ELSE pc' = "failed" /\ err' = "FileNotFoundError" /\ UNCHANGED <<in_file, offset>>
    /\ UNCHANGED <<positions, czml, doc_packet, out_file, out_content>>
    /\ PipeFrame

\* Variant: the file opened without a with block, so that an exception in the
\* loop leaves it open.
CsvReadLine_noWith ==
    /\ pc = "csv_loop"
    /\ offset <= Len(file)
    /\ LET line   == ReadLine(file, offset)
           parsed == ParseLine(line)
       IN  IF parsed.status = "ok"
           THEN /\ positions' = positions \o parsed.values
                /\ offset' = offset + Len(line)
                /\ UNCHANGED <<pc, in_file, err>>
           ELSE /\ pc' = "failed"
                /\ err' = parsed.status
                /\ UNCHANGED <<positions, offset, in_file>>
    /\ UNCHANGED <<czml, doc_packet, out_file, out_content>>
    /\ PipeFrame

\* Lines 84-88: one turn of the loop. An exception inside the with block closes
\* the file on the way out.
CsvReadLine ==
    /\ pc = "csv_loop"
    /\ offset <= Len(file)
    /\ LET line   == ReadLine(file, offset)
           parsed == ParseLine(line)
       IN  IF parsed.status = "ok"
           THEN /\ positions' = positions \o parsed.values
                /\ offset' = offset + Len(line)
                /\ UNCHANGED <<pc, in_file, err>>
           ELSE /\ pc' = "failed"
                /\ in_file' = "closed"
                /\ err' = parsed.status
                /\ UNCHANGED <<positions, offset>>
    /\ UNCHANGED <<czml, doc_packet, out_file, out_content>>
    /\ PipeFrame

\* The end of the file: the with block closes it and lines 89-99 return the entity.
CsvReturn ==
    /\ pc = "csv_loop"
    /\ offset > Len(file)
    /\ in_file' = "closed"
    /\ czml' = CsvEntity("Test Entity", position_type, positions)
    /\ pc' = "doc"
    /\ UNCHANGED <<offset, positions, doc_packet, out_file, out_content, err>>
    /\ PipeFrame

\* Variant: the write follows even when the packet could not be computed.
MainDocPacket_thenWrite ==
    /\ pc = "doc"
    /\ LET r == create_doc_packet_from_czmls(<<czml>>)
       IN  /\ pc' = "write"
           /\ err' = IF r.status = "ok" THEN err ELSE r.status
           /\ doc_packet' = r.packet
    /\ UNCHANGED <<offset, in_file, positions, czml, out_file, out_content>>
    /\ PipeFrame

\* Line 184 on all_entities = [czml]; an exception ends main().
MainDocPacket ==
    /\ pc = "doc"
    /\ LET r == create_doc_packet_from_czmls(<<czml>>)
       IN  IF r.status = "ok"
           THEN pc' = "write" /\ doc_packet' = r.packet /\ err' = err
           ELSE pc' = "failed" /\ err' = r.status /\ doc_packet' = doc_packet
    /\ UNCHANGED <<offset, in_file, positions, czml, out_file, out_content>>
    /\ PipeFrame

\* Lines 168-169: json.dumps, then open(filename, "w"), which empties the file.
WriteOpen ==
    /\ pc = "write"
    /\ out_file' = "open"
    /\ out_content' = [state |-> "truncated", data |-> <<>>]
    /\ pc' = "writing"
    /\ UNCHANGED <<offset, in_file, positions, czml, doc_packet, err>>
    /\ PipeFrame

\* Line 170: the document packet first, then the entities.
WriteWrite ==
    /\ pc = "writing"
    /\ out_content' = [state |-> "written", data |-> <<doc_packet, czml>>]
    /\ pc' = "write_exit"
    /\ UNCHANGED <<offset, in_file, positions, czml, doc_packet, out_file, err>>
    /\ PipeFrame

\* The end of the with block of write_to_file.
WriteClose ==
    /\ pc = "write_exit"
    /\ out_file' = "closed"
    /\ pc' = "done"
    /\ UNCHANGED <<offset, in_file, positions, czml, doc_packet, out_content, err>>
    /\ PipeFrame

---------------------------------------------------------------------------
(* The inputs of main(): the CSV file, whether it exists, and position_type *)

MaxRows == 2

Digits(n) == Pad(n, 1)

\* Rows as lists of fields: four well-formed ones (one with a half second and a
\* negative coordinate, one whose timestamp has a fraction below a microsecond,
\* one with a fifth field), and four malformed ones (three fields, a field that
\* is no number, an empty line, a timestamp that is no number).
RowSet ==
    { <<Digits(1676502926), Digits(10), Digits(10), Digits(10)>>,
      <<Digits(1676502926) \o <<".", "5">>, <<"-", "7", ".", "5">>, Digits(20), Digits(10)>>,
      <<Digits(1676502926) \o <<".", "0", "0", "0", "0", "0", "0", "2">>,
        Digits(10), Digits(10), Digits(10)>>,
      <<Digits(1676502930), Digits(20), Digits(20), Digits(20), <<"x">>>>,
      <<Digits(1676502926), Digits(10), Digits(10)>>,
      <<Digits(1676502926), Digits(10), <<"x">>, Digits(10)>>,
      << <<>> >>,
      <<<<"x">>, Digits(10), Digits(10), Digits(10)>> }

RECURSIVE Join(_)
Join(fields) ==
    IF Len(fields) = 1 THEN fields[1]
    ELSE fields[1] \o <<",">> \o Join(Tail(fields))

\* The text of the file: the rows, each but possibly the last ended by a newline.
RECURSIVE RenderFile(_, _)
RenderFile(rs, lastNewline) ==
    IF rs = <<>> THEN <<>>
    ELSE Join(Head(rs))
         \o (IF Len(rs) > 1 \/ lastNewline THEN <<"\n">> ELSE <<>>)
         \o RenderFile(Tail(rs), lastNewline)

PositionTypeArgs ==
    {"cartesian", "cartographicDegrees", "cartographicRadians", "geodetic"}

NoEntity == [id |-> ""]

PipeInit ==
    /\ pc = "csv_check"
    /\ rows \in UNION {[1..n -> RowSet] : n \in 0..MaxRows}
    /\ finalNewline \in BOOLEAN
    /\ (rows = <<>> => finalNewline)
    /\ file = RenderFile(rows, finalNewline)
    /\ fileExists \in BOOLEAN
    /\ (~fileExists => rows = <<>>)
    /\ position_type \in PositionTypeArgs
    /\ offset = 0
    /\ in_file = "unopened"
    /\ positions = <<>>
    /\ czml = NoEntity
    /\ doc_packet = NoPacket
    /\ out_file = "unopened"
    /\ out_content = [state |-> "untouched", data |-> <<>>]
    /\ err = "none"

PipeIdle ==
    /\ pc = "idle"
    /\ rows = <<>>
    /\ finalNewline = TRUE
    /\ file = <<>>
    /\ fileExists = FALSE
    /\ position_type = ""
    /\ offset = 0
    /\ in_file = "unopened"
    /\ positions = <<>>
    /\ czml = NoEntity
    /\ doc_packet = NoPacket
    /\ out_file = "unopened"
    /\ out_content = [state |-> "untouched", data |-> <<>>]
    /\ err = "none"

---------------------------------------------------------------------------
(* create_doc_packet_from_czmls on lists of entities, in two orders *)

MaxEntities == 2

Sample1(t) == <<unix_to_iso_string(t), IntFloat(10), IntFloat(10), IntFloat(10)>>

Half(n) == [IntFloat(n) EXCEPT !.frac = 2097152]

\* Entities the builders produce, with positions csv_to_czml reads from files
\* of no, one or two rows (rows in and out of time order, whole and half
\* seconds), and entities whose position uses CZML's cartesianVelocity, a key
\* the aggregator does not recognize.
EntityPool ==
    { create_entity_with_polygon(<<"first_id", "second_id">>),
      create_entity_with_ellipsoid,
      CsvEntity("a", "cartesian", Sample1(IntFloat(1676502926))),
      CsvEntity("b", "cartographicDegrees",
                Sample1(IntFloat(1676502926)) \o Sample1(IntFloat(1676502930))),
      CsvEntity("c", "cartographicRadians", Sample1(IntFloat(1676502930))),
      CsvEntity("d", "cartesian", Sample1(Half(1676502926))),
      CsvEntity("e", "cartographicDegrees",
                Sample1(IntFloat(1676502930)) \o Sample1(IntFloat(1676502926))),
      CsvEntity("f", "cartesian", <<>>),
      CsvEntity("g", "cartesianVelocity", Sample1(IntFloat(59))),
      CsvEntity("h", "cartesianVelocity", Sample1(IntFloat(1676502999))) }

NoResult == [status |-> "none", packet |-> NoPacket]

DocInit ==
    /\ dpc = "start"
    /\ czmls \in UNION {[1..n -> EntityPool] : n \in 0..MaxEntities}
    /\ original = czmls
    /\ dresult = NoResult
    /\ dfirst = NoResult

DocIdle ==
    /\ dpc = "idle"
    /\ czmls = <<>>
    /\ original = <<>>
    /\ dresult = NoResult
    /\ dfirst = NoResult

DocCall ==
    /\ dpc = "start"
    /\ dfirst' = create_doc_packet_from_czmls(czmls)
    /\ dresult' = dfirst'
    /\ dpc' = "called"
    /\ UNCHANGED <<czmls, original, codecVars, pipeVars, polyVars>>

Orders(n) == {p \in [1..n -> 1..n] : \A i, j \in 1..n : p[i] = p[j] => i = j}

\* The same entities in another order, and the call on that list.
DocCallReordered ==
    /\ dpc = "called"
    /\ \E p \in Orders(Len(original)) :
          /\ czmls' = [i \in 1..Len(original) |-> original[p[i]]]
          /\ dresult' = create_doc_packet_from_czmls(czmls')
    /\ dpc' = "recalled"
    /\ UNCHANGED <<original, dfirst, codecVars, pipeVars, polyVars>>

---------------------------------------------------------------------------
(* create_entity_with_polygon on lists of identifiers *)

MaxVertices == 3

VertexIds == {"first_id", "second_id", "third_id", "a"}

PolyInit ==
    /\ gpc = "start"
    /\ vertices \in UNION {[1..n -> VertexIds] : n \in 0..MaxVertices}
    /\ polygon = NoEntity

PolyIdle ==
    /\ gpc = "idle"
    /\ vertices = <<>>
    /\ polygon = NoEntity

PolygonCall ==
    /\ gpc = "start"
    /\ polygon' = create_entity_with_polygon(vertices)
    /\ gpc' = "returned"
    /\ UNCHANGED <<vertices, codecVars, pipeVars, docVars>>

---------------------------------------------------------------------------
(* Specifications *)

CodecNext == CodecFormat \/ CodecParse

InitCodec == CodecInit /\ PipeIdle /\ DocIdle /\ PolyIdle

SpecCodec == InitCodec /\ [][CodecNext]_vars

PipeNext ==
    \/ CsvCheckType
    \/ CsvOpen
    \/ CsvReadLine
    \/ CsvReturn
    \/ MainDocPacket
    \/ WriteOpen
    \/ WriteWrite
    \/ WriteClose

InitMain == PipeInit /\ CodecIdle /\ DocIdle /\ PolyIdle

SpecMain == InitMain /\ [][PipeNext]_vars

DocNext == DocCall \/ DocCallReordered

InitDoc == DocInit /\ CodecIdle /\ PipeIdle /\ PolyIdle

SpecDoc == InitDoc /\ [][DocNext]_vars

InitPolygon == PolyInit /\ CodecIdle /\ PipeIdle /\ DocIdle

PolyNext == PolygonCall

SpecPolygon == InitPolygon /\ [][PolyNext]_vars

---------------------------------------------------------------------------
(* Properties: what they are stated with *)

RecognizedNames == {"cartesian", "cartographicDegrees", "cartographicRadians"}

\* The day count from 1970-01-01 of a proleptic Gregorian date.
DaysFromCivil(y, m, d) ==
    LET yy  == IF m <= 2 THEN y - 1 ELSE y
        era == yy \div 400
        yoe == yy - era * 400
        mp  == (m + 9) % 12
        doy == ((153 * mp + 2) \div 5) + d - 1
        doe == yoe * 365 + (yoe \div 4) - (yoe \div 100) + doy
    IN  era * 146097 + doe - 719468

\* The instant a date-time names: seconds from the epoch, and microseconds.
EpochOf(dt) ==
    [sec |-> DaysFromCivil(dt.year, dt.month, dt.day) * 86400
             + dt.hour * 3600 + dt.minute * 60 + dt.second,
     us  |-> dt.microsecond]

NotAfter(a, b) == a.sec < b.sec \/ (a.sec = b.sec /\ a.us <= b.us)

\* The instant a timestamp string names.
Instant(ts) == EpochOf(get_strptime(ts).dt)

\* An entity with a position field whose encoding is one of the three names.
HasRecognizedPosition(e) ==
    "position" \in DOMAIN e /\ e.position[1][1] \in RecognizedNames

PositionList(e) == e.position[1][2]

\* The timestamps of a flat [t, x, y, z, t, x, y, z, ...] list.
Timestamps(e) ==
    {PositionList(e)[i] : i \in {j \in 1..Len(PositionList(e)) : j % 4 = 1}}

Recognized(list) == {i \in 1..Len(list) : HasRecognizedPosition(list[i])}

FirstTimestamps(list) == {PositionList(list[i])[1] : i \in Recognized(list)}

LastTimestamps(list) ==
    {PositionList(list[i])[Len(PositionList(list[i])) - 3] : i \in Recognized(list)}

TextMin(S) == CHOOSE m \in S : \A x \in S : ~StrLess(x, m)

TextMax(S) == CHOOSE m \in S : \A x \in S : ~StrLess(m, x)

\* The two sides of "<start>/<end>".
SlashAt(interval) == CHOOSE i \in 1..Len(interval) : interval[i] = "/"

IntervalStart(interval) == SubSeq(interval, 1, SlashAt(interval) - 1)

IntervalEnd(interval) == SubSeq(interval, SlashAt(interval) + 1, Len(interval))

WellFormedRow(r) == Len(r) >= 4 /\ \A i \in 1..4 : Float(r[i]).ok

WellFormedInput ==
    /\ fileExists
    /\ finalNewline
    /\ \A i \in 1..Len(rows) : WellFormedRow(rows[i])
    /\ position_type \in RecognizedNames

InCsvToCzml == pc \in {"csv_check", "csv_open", "csv_loop"}

---------------------------------------------------------------------------
(* Properties *)

\* C1: for a file of N well-formed rows, each ended by a newline, csv_to_czml
\* raises nothing and returns an entity whose position list has 4*N elements:
\* for every row, in row order, the timestamp string of its first field and
\* then its second, third and fourth fields as floats; further fields are ignored.
C1_PositionsInRowOrder ==
    WellFormedInput =>
        /\ err \notin {"Exception", "FileNotFoundError", "ValueError"}
        /\ ~InCsvToCzml => czml # NoEntity
        /\ czml # NoEntity =>
              LET plist == PositionList(czml)
              IN  /\ Len(plist) = 4 * Len(rows)
                  /\ \A i \in 1..Len(rows) :
                        /\ plist[4 * i - 3] = unix_to_iso_string(Float(rows[i][1]))
                        /\ plist[4 * i - 2] = Float(rows[i][2])
                        /\ plist[4 * i - 1] = Float(rows[i][3])
                        /\ plist[4 * i] = Float(rows[i][4])

\* csv_to_czml has returned the entity of a well-formed file of two rows, the
\* second of them with a fifth field.
C1_Witness ==
    /\ WellFormedInput
    /\ czml # NoEntity
    /\ Len(rows) = 2
    /\ Len(rows[2]) = 5
    /\ Len(PositionList(czml)) = 8

\* C2: whenever create_doc_packet_from_czmls returns a packet, the start of its
\* interval is not after, and the end not before, any timestamp in the position
\* list of any entity with a recognized position encoding.
C2_IntervalSpansAllTimestamps ==
    dfirst.status = "ok" =>
        \A i \in Recognized(original) :
            \A ts \in Timestamps(original[i]) :
                /\ NotAfter(Instant(IntervalStart(dfirst.packet.clock.interval)), Instant(ts))
                /\ NotAfter(Instant(ts), Instant(IntervalEnd(dfirst.packet.clock.interval)))

C4_ExcludesUnqualified ==
    dpc # "start" =>
        /\ dfirst = create_doc_packet_from_czmls(SelectSeq(original, HasRecognizedPosition))
        /\ dfirst.status = "ok" =>
              /\ dfirst.packet.clock.currentTime \in FirstTimestamps(original)
              /\ IntervalEnd(dfirst.packet.clock.interval) \in LastTimestamps(original)

\* A packet has been returned for a list of an entity with a recognized
\* position and an entity with an unrecognized position key.
C4_Witness ==
    /\ dpc # "start"
    /\ dfirst.status = "ok"
    /\ Recognized(original) # {}
    /\ \E i \in 1..Len(original) :
          "position" \in DOMAIN original[i] /\ ~HasRecognizedPosition(original[i])

\* C5: with a position_type that is none of the three names, csv_to_czml raises
\* its exception at once: the file is never opened and no line is ever read.
C5_NoFileBeforeTypeCheck ==
    position_type \notin RecognizedNames =>
        /\ in_file = "unopened"
        /\ offset = 0
        /\ positions = <<>>
        /\ pc # "csv_check" => (pc = "failed" /\ err = "Exception")

\* csv_to_czml has failed on the position_type, given a file that exists and
\* has rows.
C5_Witness ==
    /\ pc = "failed"
    /\ err = "Exception"
    /\ position_type = "geodetic"
    /\ fileExists
    /\ rows # <<>>

\* C6: once any step of the pipeline has failed, the output file has not been
\* opened or written and never will be: it is opened only after the entity and
\* the document packet have been built, with no failure.
C6_NoPartialOutput ==
    /\ err # "none" => (out_file = "unopened" /\ out_content.state = "untouched")
    /\ out_file # "unopened" => (czml # NoEntity /\ doc_packet # NoPacket /\ err = "none")

\* The document packet could not be computed for the entity read.
C6_Witness ==
    /\ pc = "failed"
    /\ err = "IndexError"
    /\ czml # NoEntity
    /\ out_file = "unopened"

\* C7: when no entity of the list has a position field with a recognized
\* encoding, create_doc_packet_from_czmls raises ValueError (min of an empty
\* sequence) and returns no packet.
C7_EmptySequenceError ==
    (dpc # "start" /\ Recognized(original) = {}) =>
        /\ dfirst.status = "ValueError"
        /\ dfirst.packet = NoPacket
        /\ dresult.status = "ValueError"

\* The call has failed on a list of two entities, one without a position field.
C7_Witness ==
    /\ dpc # "start"
    /\ Len(original) = 2
    /\ Recognized(original) = {}
    /\ \E i \in 1..2 : "position" \notin DOMAIN original[i]
    /\ dfirst.status = "ValueError"

\* C8 (as amended): the string unix_to_iso_string(t) gives is accepted by
\* get_strptime, in the whole-second form when t, rounded to whole microseconds
\* as utcfromtimestamp rounds it (half to even), is a whole number of seconds
\* and in the fraction form otherwise, and parses to the date-time of that
\* rounded instant.
C8_RoundTrip ==
    cpc = "parsed" =>
        /\ cparsed.form = (IF EpochMicros(ct).us = 0 THEN "whole" ELSE "fraction")
        /\ EpochOf(cparsed.dt) = EpochMicros(ct)

\* A tie has been formatted and parsed: 1676502926 + 98304 ticks is 23437.5
\* microseconds past the second.
C8_Witness ==
    /\ cpc = "parsed"
    /\ ~ct.neg /\ ct.int = 1676502926 /\ ct.frac = 98304
    /\ cparsed.form = "fraction"
    /\ cparsed.dt.microsecond = 23438

\* C8 (as claimed): the whole-second form when t has no fractional part, the
\* fraction form otherwise, and the parse recovers the date-time of t.
C8_Original ==
    cpc = "parsed" =>
        /\ cparsed.form = (IF ct.frac = 0 THEN "whole" ELSE "fraction")
        /\ EpochOf(cparsed.dt) = EpochMicros(ct)

\* C9: the polygon's references are the identifiers given, each followed by
\* "#position", as many and in the same order.
C9_PolygonOrder ==
    gpc = "returned" =>
        LET refs == polygon.polygon.positions.references
        IN  /\ Len(refs) = Len(vertices)
            /\ \A i \in 1..Len(vertices) : refs[i] = vertices[i] \o "#position"

\* The polygon of three different identifiers has been built.
C9_Witness ==
    /\ gpc = "returned"
    /\ vertices = <<"first_id", "second_id", "third_id">>
    /\ polygon.polygon.positions.references =
          <<"first_id#position", "second_id#position", "third_id#position">>

\* C10: the file csv_to_czml opened is closed once csv_to_czml has ended,
\* by return or by an exception; the file write_to_file opened is closed once it
\* has ended; the two are never open together, and the output file is opened
\* only after the input file has been closed.
C10_HandlesReleased ==
    /\ ~InCsvToCzml => in_file # "open"
    /\ pc \in {"done", "failed"} => out_file # "open"
    /\ pc = "done" => out_file = "closed"
    /\ ~(in_file = "open" /\ out_file = "open")
    /\ out_file # "unopened" => in_file = "closed"

\* A row could not be parsed after at least one row had been read, and the
\* file is closed.
C10_Witness ==
    /\ pc = "failed"
    /\ err = "ValueError"
    /\ offset > 1
    /\ in_file = "closed"

=============================================================================
